---- MODULE Spec2Model ----
(***************************************************************************)
(* A model of the RSocket transport of rsocket-go: the Transport type,     *)
(* its read loop (Start), the frame dispatcher (DispatchFrame), handler    *)
(* registration (Handle), Send, Close and SetLifetime, over an abstract    *)
(* Conn (Read, Write, Flush, SetDeadline, Close) and a discrete clock.     *)
(***************************************************************************)
EXTENDS Integers, Sequences, FiniteSets, TLC

\* ------------------------------------------------------------------ bounds

\* Frames the read loop reads before the peer stays silent.
MaxFrames == 2
\* Frames the peer sends in the keepalive scenario.
MaxKeepalives == 4
\* Events that have a handler registered at the same time.
MaxHandlers == 1
\* The clock runs from 0 to MaxTime, and to MaxKeepaliveTime in the
\* keepalive scenario.
MaxTime == 1
MaxKeepaliveTime == 4
\* Largest value of a frame's numeric field (Setup's max lifetime,
\* Keepalive's and ResumeOK's last received position).
MaxVal == 1
\* Calls of Send.
MaxSends == 2
\* Longest data and metadata of a payload frame, in bytes, and the largest
\* stream id a payload frame is built for.
MaxLen == 2
MaxStreamID == 2
\* Requests a client issues on one connection.
MaxRequests == 3
\* The count of Conn.Close calls saturates here ("more than once").
MaxCloseCount == 2
\* The keepalive interval of the keepalive scenario, in clock ticks.
Interval == 1

\* --------------------------------------------------------------- constants

\* common.DefaultKeepaliveMaxLifetime (90 seconds), in clock ticks.
DefaultKeepaliveMaxLifetime == 90

\* The event types, in the order of the iota block.
EventTypes ==
  { "OnSetup", "OnResume", "OnLease", "OnResumeOK", "OnFireAndForget",
    "OnMetadataPush", "OnRequestResponse", "OnRequestStream",
    "OnRequestChannel", "OnPayload", "OnRequestN", "OnError",
    "OnErrorWithZeroStreamID", "OnCancel", "OnKeepalive" }

\* The frame types a decoded frame's header can carry; "Ext" stands for the
\* types DispatchFrame's switch has no case for.
FrameTypes ==
  { "Setup", "Lease", "Keepalive", "RequestResponse", "RequestFNF",
    "RequestStream", "RequestChannel", "RequestN", "Cancel", "Payload",
    "Error", "MetadataPush", "Resume", "ResumeOK", "Ext" }

\* Frame types whose body carries the numeric field the transport reads.
ValuedTypes == { "Setup", "Keepalive", "ResumeOK" }

StreamIDs == { 0, 1 }

\* A frame as the transport sees it: header type, header stream id and the
\* one body field DispatchFrame extracts (0 where it extracts none).
Frames ==
  { [type |-> t, sid |-> s, val |-> v] :
      t \in FrameTypes \ ValuedTypes, s \in StreamIDs, v \in {0} }
  \cup
  { [type |-> t, sid |-> s, val |-> v] :
      t \in ValuedTypes, s \in StreamIDs, v \in 0..MaxVal }

NoFrame == [type |-> "none", sid |-> 0, val |-> 0]

\* A nil FrameHandler, and the handlers the application registers.
NilHandler == "nil"
HandlerIds == { "h1" }

\* ------------------------------------------------------------------ errors

\* An error value: its kind, and the messages errors.Wrap put around it
\* (outermost first). A sentinel (io.EOF, errNoHandler, ...) has no message.
Err(k) == [kind |-> k, chain |-> <<>>]
Nil == Err("nil")
EOF == Err("EOF")
IoError == Err("IoError")
Timeout == Err("Timeout")
CtxErr == Err("context canceled")
HandlerErr == Err("handler failed")
errTransportClosed == Err("transport closed")
errNoHandler == Err("you must register a handler")
NotReturned == Err("not returned")

Wrap(e, msg) == [e EXCEPT !.chain = <<msg>> \o @]

IsNoHandlerError(e) == e = errNoHandler

\* ErrorFrame.ToError: the error value decoded from an Error frame.
ToError(f) == Err("frame error")

\* --------------------------------------------------------------- the state

VARIABLES
  hasConn,        \* Transport.conn is not nil
  maxLifetime,    \* Transport.maxLifetime
  lastRcvPos,     \* Transport.lastRcvPos
  once,           \* Transport.once has run
  handlers,       \* Transport.handlers
  connCloses,     \* calls of Conn.Close so far (saturating)
  deadline,       \* the Conn's read deadline, NoDeadline when none was set
  now,            \* the clock
  ctxDone,        \* the context of Start is cancelled
  pc,             \* where Start is
  frame,          \* Start's f, the frame being dispatched
  err,            \* Start's err
  result,         \* what Start returned
  readErr,        \* what the latest Conn.Read reported (Nil with a frame)
  nread,          \* frames read so far
  calls,          \* read indexes of the frames handed to a handler, in order
  call,           \* the latest handler invocation: event, handler and frame
  sdResult,       \* what SetDeadline returned for the current frame, if called
  keepaliveAt,    \* when Start began or the latest Keepalive frame was read
  sends,          \* one record per Send call, in order
  closeRet,       \* what the latest call of Close returned
  first,          \* ReadFirst: where it is, the frame and the error it returns
  payload,        \* a WriteablePayloadFrame and what its accessors returned
  echo,           \* the request-response exchange with an echoing responder
  mu,             \* Transport's RWMutex: the writer holding it, its readers
  gor             \* where each goroutine using the handler table is

vars ==
  << hasConn, maxLifetime, lastRcvPos, once, handlers, connCloses, deadline,
     now, ctxDone, pc, frame, err, result, readErr, nread, calls, call,
     sdResult, keepaliveAt, sends, closeRet, first, payload, echo, mu, gor >>

transportVars == << maxLifetime, lastRcvPos, handlers >>
connVars == << once, connCloses, deadline >>
loopVars ==
  << pc, frame, err, result, readErr, nread, calls, call, sdResult,
     keepaliveAt >>
envVars == << now, ctxDone >>
\* What the read loop, Handle, SetLifetime and the clock leave alone.
apartVars == << sends, closeRet, first, payload, echo, mu, gor >>
\* What Close and a returning Start leave alone.
asideVars == << sends, first, payload, echo, mu, gor >>

NoDeadline == -1
\* No SetDeadline call was made for the current frame.
NotCalled == Err("not called")
NoCall == [ev |-> "none", handler |-> NilHandler, frame |-> NoFrame]
\* ReadFirst was not called.
NoFirst == [pc |-> "idle", frame |-> NoFrame, err |-> NotReturned]
\* No payload frame was built, no request was issued.
NoHeader == [sid |-> 0, type |-> "none", flag |-> 0]
NoPayloadFrame == [header |-> NoHeader, metadata |-> << >>, data |-> << >>]
NotRead == [called |-> FALSE, value |-> << >>, ok |-> FALSE]
NoPayload ==
  [built |-> FALSE, id |-> 0, data |-> << >>, metadata |-> << >>, flag |-> 0,
   frame |-> NoPayloadFrame, md |-> NotRead, mdUTF8 |-> NotRead,
   dataOut |-> NotRead]
\* The stream ids a client allocates (odd, from 1), and a stream not yet
\* allocated.
RequestIds == { 2 * i - 1 : i \in 1 .. MaxRequests }
Unused == [state |-> "unused", req |-> << >>, seen |-> << >>]
NoEcho ==
  [streams |-> [sid \in RequestIds |-> Unused], toServer |-> << >>,
   toClient |-> << >>]
\* The goroutines that use the handler table: the read loop, whose handlers
\* may call Handle, and the owner of the transport.
Goroutines == { "loop", "owner" }
\* The zero RWMutex, and a goroutine outside Handle and getHandler.
NoLock == [writer |-> "none", readers |-> 0]
Resting ==
  [pc |-> "idle", ev |-> "none", h |-> NilHandler, nev |-> "none",
   nh |-> NilHandler]

\* NewTransport(c): every handler nil, the default max lifetime.
NewTransport(c) ==
  /\ hasConn = c
  /\ maxLifetime = DefaultKeepaliveMaxLifetime
  /\ lastRcvPos = 0
  /\ once = FALSE
  /\ handlers = [e \in EventTypes |-> NilHandler]

Init ==
  /\ \E c \in BOOLEAN : NewTransport(c)
  /\ connCloses = 0
  /\ deadline = NoDeadline
  /\ now = 0
  /\ ctxDone = FALSE
  /\ pc = "idle"
  /\ frame = NoFrame
  /\ err = Nil
  /\ result = NotReturned
  /\ readErr = Nil
  /\ nread = 0
  /\ calls = <<>>
  /\ call = NoCall
  /\ sdResult = NotCalled
  /\ keepaliveAt = 0
  /\ sends = <<>>
  /\ closeRet = NotCalled
  /\ first = NoFirst
  /\ payload = NoPayload
  /\ echo = NoEcho
  /\ mu = NoLock
  /\ gor = [g \in Goroutines |-> Resting]

\* ------------------------------------------------- the Conn's contract

\* What Conn.Read can report besides a frame.
ReadErrs == { EOF, IoError, Timeout }
\* What Conn.SetDeadline, Conn.Write and Conn.Flush can return.
SetDeadlineErrs == { Nil, EOF, IoError }
WriteErrs == { Nil, IoError }
FlushErrs == { Nil, IoError }

\* A read fails with a timeout only once the deadline set by SetDeadline
\* has passed without a frame.
DeadlineExceeded(d, t) == d # NoDeadline /\ t >= d

\* ------------------------------------------------------- DispatchFrame

\* A switch without the Payload case.
EventOfWithoutPayload(f) ==
  CASE f.type = "Setup" -> "OnSetup"
    [] f.type = "Resume" -> "OnResume"
    [] f.type = "ResumeOK" -> "OnResumeOK"
    [] f.type = "RequestFNF" -> "OnFireAndForget"
    [] f.type = "MetadataPush" -> "OnMetadataPush"
    [] f.type = "RequestResponse" -> "OnRequestResponse"
    [] f.type = "RequestStream" -> "OnRequestStream"
    [] f.type = "RequestChannel" -> "OnRequestChannel"
    [] f.type = "RequestN" -> "OnRequestN"
    [] f.type = "Error" ->
         IF f.sid = 0 THEN "OnErrorWithZeroStreamID" ELSE "OnError"
    [] f.type = "Cancel" -> "OnCancel"
    [] f.type = "Keepalive" -> "OnKeepalive"
    [] f.type = "Lease" -> "OnLease"
    [] OTHER -> "none"

\* The switch on the frame type: the event whose handler is looked up,
\* "none" for a type the switch has no case for.
EventOf(f) ==
  CASE f.type = "Setup" -> "OnSetup"
    [] f.type = "Resume" -> "OnResume"
    [] f.type = "ResumeOK" -> "OnResumeOK"
    [] f.type = "RequestFNF" -> "OnFireAndForget"
    [] f.type = "MetadataPush" -> "OnMetadataPush"
    [] f.type = "RequestResponse" -> "OnRequestResponse"
    [] f.type = "RequestStream" -> "OnRequestStream"
    [] f.type = "RequestChannel" -> "OnRequestChannel"
    [] f.type = "Payload" -> "OnPayload"
    [] f.type = "RequestN" -> "OnRequestN"
    [] f.type = "Error" ->
         IF f.sid = 0 THEN "OnErrorWithZeroStreamID" ELSE "OnError"
    [] f.type = "Cancel" -> "OnCancel"
    [] f.type = "Keepalive" -> "OnKeepalive"
    [] f.type = "Lease" -> "OnLease"
    [] OTHER -> "none"

\* A dispatcher that takes the lifetime from every frame with a number.
MaxLifetimeAfterAnyValued(f, ml) == IF f.type \in ValuedTypes THEN f.val ELSE ml

\* case core.FrameTypeSetup: p.maxLifetime = frame.MaxLifetime()
MaxLifetimeAfter(f, ml) == IF f.type = "Setup" THEN f.val ELSE ml

\* A dispatcher whose ResumeOK case leaves the position alone.
LastRcvPosAfterKeepaliveOnly(f, pos) ==
  IF f.type = "Keepalive" THEN f.val ELSE pos

\* case ResumeOK / Keepalive: p.lastRcvPos = the frame's position
LastRcvPosAfter(f, pos) ==
  IF f.type \in { "ResumeOK", "Keepalive" } THEN f.val ELSE pos

\* A dispatcher without the stream id check on MetadataPush.
OmitsNoMetadataPush(f) == FALSE

\* case MetadataPush: if sid != 0 { warn; return }
OmitsMetadataPush(f) == f.type = "MetadataPush" /\ f.sid # 0

\* case Error: if sid == 0 { ...; return }
IsZeroStreamError(f) == f.type = "Error" /\ f.sid = 0

\* A deadline that leaves the lifetime out.
DeadlineIsNow(t, ml) == t

\* deadline := time.Now().Add(p.maxLifetime)
Deadline(t, ml) == t + ml

\* A lookup that indexes the table one entry off for OnLease.
getHandlerOffByOne(table, ev) ==
  IF ev = "none" THEN NilHandler
  ELSE IF ev = "OnLease" THEN table["OnResumeOK"]
  ELSE table[ev]

\* getHandler: the table's entry under the read lock; the zero-valued
\* handler variable when the switch took no case.
getHandler(table, ev) == IF ev = "none" THEN NilHandler ELSE table[ev]

\* A dispatcher that calls the handler twice.
InvokeHandlerTwice(log, seq) == Append(Append(log, seq), seq)

\* handler(frame): the frame read at index seq is handed to a handler.
InvokeHandler(log, seq) == Append(log, seq)

\* The invocation as the handler sees it.
Invocation(ev, h, f) == [ev |-> ev, handler |-> h, frame |-> f]

DispatchFrame ==
  /\ pc = "dispatch"
  /\ maxLifetime' = MaxLifetimeAfter(frame, maxLifetime)
  /\ lastRcvPos' = LastRcvPosAfter(frame, lastRcvPos)
  /\ LET ev == EventOf(frame)
         handler == getHandler(handlers, ev)
     IN  IF OmitsMetadataPush(frame) THEN
           /\ err' = Nil
           /\ pc' = "check"
           /\ UNCHANGED << deadline, sdResult, calls, call >>
         ELSE IF IsZeroStreamError(frame) THEN
           /\ err' = ToError(frame)
           /\ IF handler # NilHandler
                THEN /\ calls' = InvokeHandler(calls, nread)
                     /\ call' = Invocation(ev, handler, frame)
                     /\ pc' = "handler"
                ELSE /\ pc' = "check"
                     /\ UNCHANGED << calls, call >>
           /\ UNCHANGED << deadline, sdResult >>
         ELSE
           \E sdErr \in SetDeadlineErrs :
             /\ sdResult' = sdErr
             /\ deadline' = IF sdErr = Nil
                              THEN Deadline(now, maxLifetime')
                              ELSE deadline
             /\ IF sdErr # Nil THEN
                  /\ err' = sdErr
                  /\ pc' = "check"
                  /\ UNCHANGED << calls, call >>
                ELSE IF handler = NilHandler THEN
                  /\ err' = errNoHandler
                  /\ pc' = "check"
                  /\ UNCHANGED << calls, call >>
                ELSE
                  /\ calls' = InvokeHandler(calls, nread)
                  /\ call' = Invocation(ev, handler, frame)
                  /\ pc' = "handler"
                  /\ UNCHANGED err
  /\ UNCHANGED << hasConn, once, connCloses, handlers, envVars, frame, result,
                  readErr, nread, keepaliveAt, apartVars >>

\* A dispatcher that returns what the zero-stream-id error handler returns.
HandlerResultKept(ev, pending, r) ==
  IF r = Nil THEN Nil ELSE Wrap(r, "handle frame failed:")

\* The handler returns. DispatchFrame wraps a handler's error; the result
\* of the zero-stream-id error handler is discarded (_ = call(frame)).
HandlerResult(ev, pending, r) ==
  IF ev = "OnErrorWithZeroStreamID" THEN pending
  ELSE IF r = Nil THEN Nil
  ELSE Wrap(r, "handle frame failed:")

HandlerReturn ==
  /\ pc = "handler"
  /\ \E r \in { Nil, HandlerErr } : err' = HandlerResult(call.ev, err, r)
  /\ pc' = "check"
  /\ UNCHANGED << hasConn, transportVars, connVars, envVars, frame, result,
                  readErr, nread, calls, call, sdResult, keepaliveAt, apartVars >>

\* --------------------------------------------------------------- Close

\* A once that has been used up before the first Close.
CloseNeverRuns(done) == FALSE

\* once.Do runs its function on the first call only.
CloseRuns(done) == ~done

\* err = p.conn.Close(), inside once.Do.
ConnClosesAfter(done, n) ==
  IF CloseRuns(done) THEN (IF n < MaxCloseCount THEN n + 1 ELSE n) ELSE n

\* What conn.Close() can return.
CloseErrs == { Nil, IoError }

\* A Close that returns the connection's result on every call.
CloseResultAlways(done, cErr) == cErr

\* Close returns the connection's result when once.Do ran the function,
\* and its zero-valued err otherwise.
CloseResult(done, cErr) == IF CloseRuns(done) THEN cErr ELSE Nil

Close ==
  /\ hasConn
  /\ once' = TRUE
  /\ connCloses' = ConnClosesAfter(once, connCloses)
  /\ \E cErr \in CloseErrs : closeRet' = CloseResult(once, cErr)
  /\ UNCHANGED << hasConn, transportVars, deadline, envVars, loopVars, asideVars >>

\* ----------------------------------------------------------- ReadFirst

\* The frames a peer opens a connection with.
FirstFrames == { f \in Frames : f.type \in { "Setup", "Resume" } }

\* if err != nil { err = errors.Wrap(err, "read first frame failed") }
ReadFirstResult(e) ==
  IF e = Nil THEN Nil ELSE Wrap(e, "read first frame failed")

\* A ReadFirst that closes the transport whatever it returns.
ReadFirstClosesAlways(e) == TRUE

\* if err != nil { _ = p.Close() }
ReadFirstCloses(e) == e # Nil

\* ReadFirst returns frame f and error e, after closing on an error.
ReadFirstReturns(f, e) ==
  /\ first' = [pc |-> "returned", frame |-> f, err |-> e]
  /\ IF ReadFirstCloses(e)
       THEN /\ once' = TRUE
            /\ connCloses' = ConnClosesAfter(once, connCloses)
            /\ \E cErr \in CloseErrs : closeRet' = CloseResult(once, cErr)
       ELSE UNCHANGED << once, connCloses, closeRet >>

\* ReadFirst is called: a cancelled context makes it return ctx.Err(),
\* otherwise conn.Read() is called.
ReadFirstCall ==
  /\ first.pc # "reading"
  /\ hasConn
  /\ IF ctxDone
       THEN ReadFirstReturns(NoFrame, CtxErr)
       ELSE /\ first' = [pc |-> "reading", frame |-> NoFrame,
                         err |-> NotReturned]
            /\ UNCHANGED << once, connCloses, closeRet >>
  /\ UNCHANGED << hasConn, transportVars, deadline, envVars, loopVars, sends,
                  payload, echo, mu, gor >>

\* frame, err = p.conn.Read() returns, and with it ReadFirst.
ReadFirstRead ==
  /\ first.pc = "reading"
  /\ \/ \E f \in FirstFrames : ReadFirstReturns(f, ReadFirstResult(Nil))
     \/ \E e \in ReadErrs :
          /\ e = Timeout => DeadlineExceeded(deadline, now)
          /\ ReadFirstReturns(NoFrame, ReadFirstResult(e))
  /\ UNCHANGED << hasConn, transportVars, deadline, envVars, loopVars, sends,
                  payload, echo, mu, gor >>

\* --------------------------------------------------------------- Start

\* if err == io.EOF { return nil }; return errors.Wrap(err, ...)
StartResult(e) ==
  IF e = EOF THEN Nil ELSE Wrap(e, "dispatch incoming frame failed:")

\* Start is called: defer p.Close() is registered and the loop begins.
StartCall ==
  /\ pc = "idle"
  /\ hasConn
  /\ pc' = "select"
  /\ keepaliveAt' = now
  /\ UNCHANGED << hasConn, transportVars, connVars, envVars, frame, err,
                  result, readErr, nread, calls, call, sdResult, apartVars >>

\* Start returns res: the deferred Close runs, the loop's locals are gone.
StartReturns(res) ==
  /\ result' = res
  /\ pc' = "returned"
  /\ once' = TRUE
  /\ connCloses' = ConnClosesAfter(once, connCloses)
  /\ \E cErr \in CloseErrs : closeRet' = CloseResult(once, cErr)
  /\ frame' = NoFrame
  /\ call' = NoCall
  /\ sdResult' = NotCalled

\* select: a cancelled context returns ctx.Err(), otherwise Read is called.
StartSelect ==
  /\ pc = "select"
  /\ IF ctxDone
       THEN StartReturns(CtxErr)
       ELSE /\ pc' = "reading"
            /\ UNCHANGED << result, once, connCloses, closeRet, frame, call,
                            sdResult >>
  /\ UNCHANGED << hasConn, transportVars, deadline, envVars, err, readErr,
                  nread, calls, keepaliveAt, asideVars >>

\* p.conn.Read() returns one of the given frames, while fewer than limit
\* frames were read, or an error.
ReadFrom(frames, limit) ==
  /\ pc = "reading"
  /\ \/ \E f \in frames :
          /\ nread < limit
          /\ frame' = f
          /\ nread' = nread + 1
          /\ err' = Nil
          /\ readErr' = Nil
          /\ keepaliveAt' = IF f.type = "Keepalive" THEN now ELSE keepaliveAt
          /\ pc' = "dispatch"
     \/ \E e \in ReadErrs :
          /\ e = Timeout => DeadlineExceeded(deadline, now)
          /\ err' = e
          /\ readErr' = e
          /\ pc' = "check"
          /\ UNCHANGED << frame, nread, keepaliveAt >>
  /\ UNCHANGED << hasConn, transportVars, connVars, envVars, result, calls,
                  call, sdResult, apartVars >>

StartRead == ReadFrom(Frames, MaxFrames)

\* A loop that goes on after a missing handler.
LoopContinuesWithoutHandler(e) == e = Nil \/ IsNoHandlerError(e)

\* if err == nil { continue }
LoopContinues(e) == e = Nil

\* if err == nil { continue }; otherwise Start returns.
StartCheck ==
  /\ pc = "check"
  /\ IF LoopContinues(err)
       THEN /\ pc' = "select"
            /\ frame' = NoFrame
            /\ call' = NoCall
            /\ sdResult' = NotCalled
            /\ UNCHANGED << result, once, connCloses, closeRet >>
       ELSE StartReturns(StartResult(err))
  /\ UNCHANGED << hasConn, transportVars, deadline, envVars, err, readErr,
                  nread, calls, keepaliveAt, asideVars >>

\* ------------------------------------------- Handle, SetLifetime, the clock

\* The events that have a handler.
Registered(table) == { e \in EventTypes : table[e] # NilHandler }

\* p.handlers[int(event)] = handler, under the write lock.
HandlersAfter(table, ev, h) == [table EXCEPT ![ev] = h]

\* Handle(event, handler) for one of the given events.
HandleIn(events) ==
  /\ \E ev \in events, h \in HandlerIds \cup { NilHandler } :
       /\ handlers[ev] # h
       /\ Cardinality(Registered(HandlersAfter(handlers, ev, h))) <= MaxHandlers
       /\ handlers' = HandlersAfter(handlers, ev, h)
  /\ UNCHANGED << hasConn, maxLifetime, lastRcvPos, connVars, envVars,
                  loopVars, apartVars >>

Handle == HandleIn(EventTypes)

LifetimeArgs == -1 .. MaxVal

\* if lifetime < 1 { return }; p.maxLifetime = lifetime
LifetimeAfter(ml, lifetime) == IF lifetime < 1 THEN ml ELSE lifetime

\* SetLifetime(lifetime) with one of the given lifetimes.
SetLifetimeTo(lifetimes) ==
  /\ \E l \in lifetimes : maxLifetime' = LifetimeAfter(maxLifetime, l)
  /\ UNCHANGED << hasConn, lastRcvPos, handlers, connVars, envVars,
                  loopVars, apartVars >>

SetLifetime == SetLifetimeTo(LifetimeArgs)

\* The clock advances, up to limit.
TickUntil(limit) ==
  /\ now < limit
  /\ now' = now + 1
  /\ UNCHANGED << hasConn, transportVars, connVars, ctxDone, loopVars, apartVars >>

Tick == TickUntil(MaxTime)

CancelContext ==
  /\ ~ctxDone
  /\ ctxDone' = TRUE
  /\ UNCHANGED << hasConn, transportVars, connVars, now, loopVars, apartVars >>

\* ------------------------------------- the lock of the handler table

\* The events whose handlers the lock scenario registers and looks up.
LockEvents == { "OnPayload", "OnCancel" }

\* What the steps of Handle and getHandler leave alone.
lockApart ==
  << hasConn, maxLifetime, lastRcvPos, connVars, envVars, loopVars, sends,
     closeRet, first, payload, echo >>

\* p.Lock() can proceed; p.RLock() can proceed.
LockFree(m) == m.writer = "none" /\ m.readers = 0
RLockFree(m) == m.writer = "none"

\* Where a goroutine is when it is not inside Handle: the loop's handler
\* is running, the owner is idle.
Outside(g) == IF g = "loop" THEN "running" ELSE "idle"

\* Handle(event, handler) is called by g and waits for p.Lock().
HandleCall(g) ==
  /\ gor[g].pc = Outside(g)
  /\ \E ev \in LockEvents, h \in HandlerIds \cup { NilHandler } :
       gor' = [gor EXCEPT ![g].pc = "lock", ![g].nev = ev, ![g].nh = h]
  /\ UNCHANGED << handlers, mu, lockApart >>

\* p.Lock() returns.
HandleLock(g) ==
  /\ gor[g].pc = "lock"
  /\ LockFree(mu)
  /\ mu' = [mu EXCEPT !.writer = g]
  /\ gor' = [gor EXCEPT ![g].pc = "locked"]
  /\ UNCHANGED << handlers, lockApart >>

\* p.handlers[int(event)] = handler, and the deferred p.Unlock().
HandleStore(g) ==
  /\ gor[g].pc = "locked"
  /\ handlers' = HandlersAfter(handlers, gor[g].nev, gor[g].nh)
  /\ mu' = [mu EXCEPT !.writer = "none"]
  /\ gor' = [gor EXCEPT ![g].pc = Outside(g)]
  /\ UNCHANGED lockApart

\* DispatchFrame calls getHandler(ev), which waits for p.RLock().
GetHandlerCall ==
  /\ gor["loop"].pc = "idle"
  /\ \E ev \in LockEvents :
       gor' = [gor EXCEPT !["loop"] = [Resting EXCEPT !.pc = "rlock", !.ev = ev]]
  /\ UNCHANGED << handlers, mu, lockApart >>

\* p.RLock() returns.
GetHandlerRLock ==
  /\ gor["loop"].pc = "rlock"
  /\ RLockFree(mu)
  /\ mu' = [mu EXCEPT !.readers = @ + 1]
  /\ gor' = [gor EXCEPT !["loop"].pc = "rlocked"]
  /\ UNCHANGED << handlers, lockApart >>

\* A getHandler that returns with the read lock held.
ReadersKept(n) == n

\* defer p.RUnlock()
ReadersAfterLookup(n) == n - 1

\* return p.handlers[t], and the deferred p.RUnlock().
GetHandlerReturn ==
  /\ gor["loop"].pc = "rlocked"
  /\ gor' = [gor EXCEPT !["loop"].pc = "looked",
                        !["loop"].h = getHandler(handlers, gor["loop"].ev)]
  /\ mu' = [mu EXCEPT !.readers = ReadersAfterLookup(@)]
  /\ UNCHANGED << handlers, lockApart >>

\* if handler == nil { return errNoHandler }; err = handler(frame)
LoopInvoke ==
  /\ gor["loop"].pc = "looked"
  /\ gor' = [gor EXCEPT !["loop"].pc =
                IF gor["loop"].h = NilHandler THEN "idle" ELSE "running"]
  /\ UNCHANGED << handlers, mu, lockApart >>

\* The handler returns.
LoopHandlerDone ==
  /\ gor["loop"].pc = "running"
  /\ gor' = [gor EXCEPT !["loop"] = Resting]
  /\ UNCHANGED << handlers, mu, lockApart >>

\* ---------------------------------------------------------------- Send

\* if p == nil || p.conn == nil { err = errTransportClosed; return }
\* err = p.conn.Write(frame); if err != nil { return }
\* if !flush { return }; err = p.conn.Flush()
SendResult(conn, flush, wErr, fErr) ==
  IF ~conn THEN errTransportClosed
  ELSE IF wErr # Nil THEN wErr
  ELSE IF ~flush THEN Nil
  ELSE fErr

\* Conn.Write is called once the connection check has passed.
SendWrites(conn) == IF conn THEN 1 ELSE 0

\* Conn.Flush is called after a successful Write when flush is set.
SendFlushes(conn, flush, wErr) ==
  IF conn /\ wErr = Nil /\ flush THEN 1 ELSE 0

\* A deferred function without the test of err.
DoneCallsAlways(ret) == 1

\* The deferred function: if err == nil { frame.Done() }
DoneCalls(ret) == IF ret = Nil THEN 1 ELSE 0

\* One call of Send: what it was given, what it did and what it returned.
SendOutcome(conn, closed, flush, wErr, fErr) ==
  [ conn |-> conn,
    closed |-> closed,
    flush |-> flush,
    wErr |-> IF conn THEN wErr ELSE Nil,
    fErr |-> IF conn /\ wErr = Nil /\ flush THEN fErr ELSE Nil,
    writes |-> SendWrites(conn),
    flushes |-> SendFlushes(conn, flush, wErr),
    ret |-> SendResult(conn, flush, wErr, fErr),
    dones |-> DoneCalls(SendResult(conn, flush, wErr, fErr)) ]

Send ==
  /\ Len(sends) < MaxSends
  /\ \E flush \in BOOLEAN, wErr \in WriteErrs, fErr \in FlushErrs :
       sends' = Append(sends, SendOutcome(hasConn, once, flush, wErr, fErr))
  /\ UNCHANGED << hasConn, transportVars, connVars, envVars, loopVars,
                  closeRet, first, payload, echo, mu, gor >>

\* ------------------------------------------------------ payload frames

\* The flag bits of a frame header (core.FrameFlag, 10 bits).
FlagNext == 32
FlagComplete == 64
FlagFollows == 128
FlagMetadata == 256

FlagBits == { FlagNext, FlagComplete, FlagFollows, FlagMetadata }

\* FrameFlag.Check(bit), and flag | bit.
Check(flag, bit) == (flag \div bit) % 2 = 1
Or(flag, bit) == IF Check(flag, bit) THEN flag ELSE flag + bit

\* The flags a caller can pass.
Flags ==
  { n + c + f + m : n \in { 0, FlagNext }, c \in { 0, FlagComplete },
                    f \in { 0, FlagFollows }, m \in { 0, FlagMetadata } }

\* Byte slices of at most MaxLen bytes; a nil slice is the empty one.
ByteVals == { 0, 255 }
ByteSlices == UNION { [1 .. n -> ByteVals] : n \in 0 .. MaxLen }

\* string(bytes): the same bytes as a string value.
String(b) == [utf8 |-> b]

\* core.NewFrameHeader(id, core.FrameTypePayload, flag)
NewFrameHeader(id, t, flag) == [sid |-> id, type |-> t, flag |-> flag]

\* A constructor that sets the Metadata flag in place of the caller's flags.
FlagForMetadataOnly(metadata, flag) ==
  IF Len(metadata) > 0 THEN FlagMetadata ELSE flag

\* if len(metadata) > 0 { flag |= core.FlagMetadata }
FlagFor(metadata, flag) ==
  IF Len(metadata) > 0 THEN Or(flag, FlagMetadata) ELSE flag

NewWriteablePayloadFrame(id, data, metadata, flag) ==
  [header |-> NewFrameHeader(id, "Payload", FlagFor(metadata, flag)),
   metadata |-> metadata,
   data |-> data]

\* Data(): return p.data
Data(p) == [called |-> TRUE, value |-> p.data, ok |-> TRUE]

\* Metadata(): ok = the header's Metadata flag; metadata only if ok.
Metadata(p) ==
  [called |-> TRUE,
   value |-> IF Check(p.header.flag, FlagMetadata) THEN p.metadata ELSE << >>,
   ok |-> Check(p.header.flag, FlagMetadata)]

\* MetadataUTF8(): the same, as a string.
MetadataUTF8(p) ==
  [called |-> TRUE,
   value |-> IF Check(p.header.flag, FlagMetadata)
               THEN String(p.metadata)
               ELSE String(<< >>),
   ok |-> Check(p.header.flag, FlagMetadata)]

\* What building and reading payload frames leaves alone.
payloadApart ==
  << hasConn, transportVars, connVars, envVars, loopVars, sends, closeRet,
     first, echo, mu, gor >>

\* A payload frame is built from the caller's arguments.
BuildPayloadFrame ==
  /\ ~payload.built
  /\ \E id \in 0 .. MaxStreamID, data \in ByteSlices, metadata \in ByteSlices,
        flag \in Flags :
       payload' = [NoPayload EXCEPT
                     !.built = TRUE, !.id = id, !.data = data,
                     !.metadata = metadata, !.flag = flag,
                     !.frame = NewWriteablePayloadFrame(id, data, metadata, flag)]
  /\ UNCHANGED payloadApart

ReadData ==
  /\ payload.built
  /\ payload' = [payload EXCEPT !.dataOut = Data(payload.frame)]
  /\ UNCHANGED payloadApart

ReadMetadata ==
  /\ payload.built
  /\ payload' = [payload EXCEPT !.md = Metadata(payload.frame)]
  /\ UNCHANGED payloadApart

ReadMetadataUTF8 ==
  /\ payload.built
  /\ payload' = [payload EXCEPT !.mdUTF8 = MetadataUTF8(payload.frame)]
  /\ UNCHANGED payloadApart

\* ------------------------------- request-response with an echo responder

\* The data of a request.
RequestData == { << 0 >>, << 255 >> }

\* What the exchange leaves alone.
echoApart ==
  << hasConn, transportVars, connVars, envVars, loopVars, sends, closeRet,
     first, payload, mu, gor >>

\* The next stream id the client allocates.
NextRequestId ==
  CHOOSE sid \in RequestIds :
    /\ echo.streams[sid].state = "unused"
    /\ \A other \in RequestIds :
         other < sid => echo.streams[other].state # "unused"

\* The frames of the exchange.
RequestFrame(sid, data) ==
  [type |-> "RequestResponse", sid |-> sid, data |-> data, flag |-> 0]

\* The echoing responder answers a request with Payload{Next|Complete}
\* carrying the request's data.
EchoResponse(f) ==
  [type |-> "Payload", sid |-> f.sid, data |-> f.data,
   flag |-> FlagNext + FlagComplete]

\* The requester on a Payload frame: a waiting stream takes the value of
\* a Next frame and closes on Complete; a frame for a stream that does not
\* wait is dropped.
RequesterOnPayload(st, f) ==
  IF st.state # "waiting" THEN st
  ELSE [st EXCEPT
          !.seen = IF Check(f.flag, FlagNext) THEN Append(@, f.data) ELSE @,
          !.state = IF Check(f.flag, FlagComplete) THEN "closed" ELSE @]

\* client.RequestResponse(payload): a stream id is allocated and the
\* request frame is sent.
RequestResponse ==
  /\ \E sid \in RequestIds : echo.streams[sid].state = "unused"
  /\ \E data \in RequestData :
       echo' = [echo EXCEPT
                  !.streams[NextRequestId] =
                     [state |-> "waiting", req |-> data, seen |-> << >>],
                  !.toServer = Append(@, RequestFrame(NextRequestId, data))]
  /\ UNCHANGED echoApart

\* The responder's read loop reads the next frame and dispatches it: a
\* RequestResponse frame goes to the request-response handler, which sends
\* the echo.
ResponderDispatch ==
  /\ echo.toServer # << >>
  /\ LET f == Head(echo.toServer)
     IN  echo' = [echo EXCEPT
                    !.toServer = Tail(@),
                    !.toClient = IF EventOf(f) = "OnRequestResponse"
                                   THEN Append(@, EchoResponse(f))
                                   ELSE @]
  /\ UNCHANGED echoApart

\* The requester's read loop reads the next frame and dispatches it: a
\* Payload frame goes to the payload handler, which routes it to the
\* stream of its id.
RequesterDispatch ==
  /\ echo.toClient # << >>
  /\ LET f == Head(echo.toClient)
     IN  echo' = [echo EXCEPT
                    !.toClient = Tail(@),
                    !.streams[f.sid] =
                       IF EventOf(f) = "OnPayload"
                         THEN RequesterOnPayload(@, f)
                         ELSE @]
  /\ UNCHANGED echoApart

\* ------------------------------------------------------ specifications

\* The read loop and handler registration.
Next ==
  \/ StartCall
  \/ StartSelect
  \/ StartRead
  \/ DispatchFrame
  \/ HandlerReturn
  \/ StartCheck
  \/ Handle

Spec == Init /\ [][Next]_vars

\* Send on a transport that may have no connection or may be closed.
NextSend ==
  \/ Send
  \/ Close

SpecSend == Init /\ [][NextSend]_vars

\* The life of a transport: the read loop under a running clock, a
\* context that may be cancelled, Close calls from the owner, and handlers
\* for the session-level events.
LifeEvents == { "OnSetup", "OnKeepalive", "OnErrorWithZeroStreamID" }

LifeHandle == HandleIn(LifeEvents)

\* The peer sends the session-level frames, and Payload frames, for which
\* no handler is registered here.
LifeFrames ==
  { f \in Frames :
      f.type \in { "Setup", "Keepalive", "Error", "MetadataPush", "Payload" } }

LifeRead == ReadFrom(LifeFrames, MaxFrames)

NextLife ==
  \/ StartCall
  \/ StartSelect
  \/ LifeRead
  \/ DispatchFrame
  \/ HandlerReturn
  \/ StartCheck
  \/ LifeHandle
  \/ Tick
  \/ CancelContext
  \/ Close

SpecLife == Init /\ [][NextLife]_vars

\* The keepalive scenario: the owner registers a Keepalive handler and
\* sets maxLifetime to three intervals before Start; the peer sends
\* Keepalive frames (and possibly MetadataPush frames on a stream, which
\* are dropped), and a Keepalive frame is read at least once per interval
\* while the loop runs.
KeepaliveFrames ==
  { f \in Frames : f.type = "Keepalive" \/ OmitsMetadataPush(f) }

KeepaliveHandle == pc = "idle" /\ HandleIn({ "OnKeepalive" })

KeepaliveSetLifetime == pc = "idle" /\ SetLifetimeTo({ 3 * Interval })

KeepaliveStart ==
  /\ handlers["OnKeepalive"] # NilHandler
  /\ maxLifetime = 3 * Interval
  /\ StartCall

KeepaliveRead == ReadFrom(KeepaliveFrames, MaxKeepalives)

KeepaliveTick ==
  /\ pc \in { "idle", "returned" } \/ now + 1 - keepaliveAt <= Interval
  /\ TickUntil(MaxKeepaliveTime)

NextKeepalive ==
  \/ KeepaliveHandle
  \/ KeepaliveSetLifetime
  \/ KeepaliveStart
  \/ StartSelect
  \/ KeepaliveRead
  \/ DispatchFrame
  \/ HandlerReturn
  \/ StartCheck
  \/ KeepaliveTick

SpecKeepalive == Init /\ [][NextKeepalive]_vars

\* The lifetime scenario: the owner calls SetLifetime at any time, with
\* lifetimes below 1 too, while the loop reads Setup, Keepalive and Payload
\* frames.
LifetimeEvents == { "OnSetup", "OnKeepalive" }

LifetimeHandle == HandleIn(LifetimeEvents)

LifetimeFrames ==
  { f \in Frames : f.type \in { "Setup", "Keepalive", "Payload" } }

LifetimeRead == ReadFrom(LifetimeFrames, MaxFrames)

NextLifetime ==
  \/ StartCall
  \/ StartSelect
  \/ LifetimeRead
  \/ DispatchFrame
  \/ HandlerReturn
  \/ StartCheck
  \/ LifetimeHandle
  \/ SetLifetime

SpecLifetime == Init /\ [][NextLifetime]_vars

\* The opening of a connection: ReadFirst and Start called in any order
\* and at the same time, Close calls from the owner, a context that may be
\* cancelled, and a Setup handler.
FirstHandle == HandleIn({ "OnSetup" })

FirstLoopFrames ==
  { f \in Frames : f.type \in { "Setup", "Keepalive" } /\ f.sid = 0 }

FirstLoopRead == ReadFrom(FirstLoopFrames, MaxFrames)

NextFirst ==
  \/ ReadFirstCall
  \/ ReadFirstRead
  \/ StartCall
  \/ StartSelect
  \/ FirstLoopRead
  \/ DispatchFrame
  \/ HandlerReturn
  \/ StartCheck
  \/ FirstHandle
  \/ CancelContext
  \/ Close

SpecFirst == Init /\ [][NextFirst]_vars

\* The lock scenario: the read loop looks handlers up and runs them, the
\* handlers and the owner call Handle. The fair specification lets every
\* step that stays possible happen, and gives a goroutine waiting for the
\* lock its turn when the lock is free again and again.
HandleCalls == \E g \in Goroutines : HandleCall(g)

HandleLocks == \E g \in Goroutines : HandleLock(g)

HandleStores == \E g \in Goroutines : HandleStore(g)

NextLock ==
  \/ HandleCalls
  \/ HandleLocks
  \/ HandleStores
  \/ GetHandlerCall
  \/ GetHandlerRLock
  \/ GetHandlerReturn
  \/ LoopInvoke
  \/ LoopHandlerDone

SpecLock == Init /\ [][NextLock]_vars

SpecLockFair ==
  /\ SpecLock
  /\ \A g \in Goroutines : SF_vars(HandleLock(g)) /\ WF_vars(HandleStore(g))
  /\ SF_vars(GetHandlerRLock)
  /\ WF_vars(GetHandlerReturn)
  /\ WF_vars(LoopInvoke)

\* Payload frames built from every combination of arguments and read
\* through their accessors.
NextPayload ==
  \/ BuildPayloadFrame
  \/ ReadData
  \/ ReadMetadata
  \/ ReadMetadataUTF8

SpecPayload == Init /\ [][NextPayload]_vars

\* A client issuing requests to an echoing responder over an established
\* connection; both read loops keep running.
NextEcho ==
  \/ RequestResponse
  \/ ResponderDispatch
  \/ RequesterDispatch

SpecEcho ==
  /\ Init
  /\ [][NextEcho]_vars
  /\ WF_vars(ResponderDispatch)
  /\ WF_vars(RequesterDispatch)

\* ------------------------------------------------------------ properties

\* Where Start is while its loop runs.
LoopPcs == { "select", "reading", "dispatch", "handler", "check" }

\* DispatchFrame has just returned to Start for the frame in hand.
Dispatched == pc = "check" /\ frame # NoFrame

\* C1: Start returns nil exactly when the connection's Read reported io.EOF,
\* and every other failure of a read or of a dispatch makes it return a
\* non-nil wrapped error.
C1_NilExactlyOnReadEOF ==
  pc = "returned" =>
    /\ (result = Nil) <=> (readErr = EOF)
    /\ (result # Nil /\ result # CtxErr) => result.chain # << >>

\* C2: after every frame the read loop has read and dispatched, whatever its
\* type and stream id, SetDeadline was called once for it, and a successful
\* call left the deadline at the time of the call plus maxLifetime.
C2_DeadlineResetPerFrame ==
  Dispatched =>
    /\ sdResult # NotCalled
    /\ sdResult = Nil => deadline = now + maxLifetime

\* The event the transport's interface names for a frame type: one per
\* frame type, Error frames going to OnError.
EventNamedFor(t) ==
  CASE t = "Setup" -> "OnSetup"
    [] t = "Resume" -> "OnResume"
    [] t = "ResumeOK" -> "OnResumeOK"
    [] t = "Lease" -> "OnLease"
    [] t = "RequestFNF" -> "OnFireAndForget"
    [] t = "MetadataPush" -> "OnMetadataPush"
    [] t = "RequestResponse" -> "OnRequestResponse"
    [] t = "RequestStream" -> "OnRequestStream"
    [] t = "RequestChannel" -> "OnRequestChannel"
    [] t = "Payload" -> "OnPayload"
    [] t = "RequestN" -> "OnRequestN"
    [] t = "Error" -> "OnError"
    [] t = "Cancel" -> "OnCancel"
    [] t = "Keepalive" -> "OnKeepalive"
    [] OTHER -> "none"

\* The handler registered, when DispatchFrame runs, for the event named for
\* the frame in hand.
HandlerNamedFor(f) ==
  IF EventNamedFor(f.type) = "none"
    THEN NilHandler
    ELSE handlers[EventNamedFor(f.type)]

\* This step is DispatchFrame running for the frame in hand.
DispatchStep == pc = "dispatch" /\ pc' # "dispatch"

\* This step hands the frame in hand, once, to the handler registered for
\* its event.
InvokesNamedHandler ==
  /\ pc' = "handler"
  /\ calls' = Append(calls, nread)
  /\ call' = [ev |-> EventNamedFor(frame.type),
              handler |-> HandlerNamedFor(frame),
              frame |-> frame]

\* This step invokes no handler and makes DispatchFrame return NoHandler.
ReturnsNoHandler ==
  /\ pc' = "check"
  /\ IsNoHandlerError(err')
  /\ UNCHANGED << calls, call >>

\* A handler, once invoked, is not invoked again for the same frame, and a
\* NoHandler error ends the read loop with an error.
NoSecondInvocation ==
  /\ pc = "handler" => calls' = calls
  /\ (pc = "check" /\ IsNoHandlerError(err) /\ pc' # pc) =>
       (pc' = "returned" /\ result' # Nil)

\* C3 as stated: DispatchFrame hands every frame, exactly once, to the
\* handler registered for the event of its type, and without such a handler
\* invokes none and returns the NoHandler error, which ends the read loop.
C3_AlwaysNamedHandlerOrNoHandler ==
  [][ /\ DispatchStep =>
           IF HandlerNamedFor(frame) # NilHandler
             THEN InvokesNamedHandler
             ELSE ReturnsNoHandler
      /\ NoSecondInvocation ]_vars

\* C3, amended: the same, for a frame that is neither a MetadataPush frame
\* with a non-zero stream id nor an Error frame with stream id 0, and when
\* SetDeadline succeeds; when SetDeadline fails no handler is invoked and
\* its error is returned.
C3_NamedHandlerOrNoHandler ==
  [][ /\ ( /\ DispatchStep
           /\ ~(frame.type = "MetadataPush" /\ frame.sid # 0)
           /\ ~(frame.type = "Error" /\ frame.sid = 0) ) =>
           IF sdResult' # Nil
             THEN /\ pc' = "check"
                  /\ err' = sdResult'
                  /\ UNCHANGED << calls, call >>
             ELSE IF HandlerNamedFor(frame) # NilHandler
               THEN InvokesNamedHandler
               ELSE ReturnsNoHandler
      /\ NoSecondInvocation ]_vars

\* C3's case: a frame was handed to its handler, and a later frame found no
\* handler.
C3_Witness ==
  /\ pc = "check"
  /\ IsNoHandlerError(err)
  /\ Len(calls) = 1
  /\ nread = 2

\* C6: an Error frame with stream id 0 is handed to the handler of
\* OnErrorWithZeroStreamID when one is registered and to no other handler,
\* and DispatchFrame returns the error decoded from the frame, which is not
\* nil, with or without a handler and whatever the handler returns, so that
\* Start returns an error; an Error frame with another stream id is handed
\* to the OnError handler only.
C6_ZeroStreamErrorIsFatal ==
  [][ /\ (DispatchStep /\ frame.type = "Error" /\ frame.sid = 0) =>
           /\ err' = ToError(frame)
           /\ err' # Nil
           /\ IF handlers["OnErrorWithZeroStreamID"] # NilHandler
                THEN /\ pc' = "handler"
                     /\ calls' = Append(calls, nread)
                     /\ call' = [ev |-> "OnErrorWithZeroStreamID",
                                 handler |-> handlers["OnErrorWithZeroStreamID"],
                                 frame |-> frame]
                ELSE /\ pc' = "check"
                     /\ UNCHANGED << calls, call >>
      /\ (pc = "handler" /\ frame.type = "Error" /\ frame.sid = 0
            /\ pc' # pc) =>
           /\ pc' = "check"
           /\ err' = ToError(frame)
      /\ (pc = "check" /\ frame.type = "Error" /\ frame.sid = 0
            /\ pc' # pc) =>
           /\ pc' = "returned"
           /\ result' # Nil
      /\ (DispatchStep /\ frame.type = "Error" /\ frame.sid # 0) =>
           /\ pc' = "handler" =>
                call' = [ev |-> "OnError", handler |-> handlers["OnError"],
                         frame |-> frame]
           /\ (sdResult' = Nil /\ handlers["OnError"] # NilHandler) =>
                pc' = "handler" ]_vars

\* C6's case: the zero-stream-id error handler has run for an Error frame
\* with stream id 0 and DispatchFrame has returned the decoded error.
C6_Witness ==
  /\ Dispatched
  /\ frame.type = "Error"
  /\ frame.sid = 0
  /\ call.ev = "OnErrorWithZeroStreamID"
  /\ err = ToError(frame)

\* C7: a MetadataPush frame with a non-zero stream id reaches no handler,
\* registered or not, DispatchFrame returns nil for it and the read loop
\* goes on to its next iteration; a MetadataPush frame with stream id 0 is
\* handed to the MetadataPush handler (when one is registered and
\* SetDeadline succeeds).
C7_MetadataPushOnStreamDropped ==
  [][ /\ (DispatchStep /\ frame.type = "MetadataPush" /\ frame.sid # 0) =>
           /\ pc' = "check"
           /\ err' = Nil
           /\ UNCHANGED << calls, call >>
      /\ (pc = "check" /\ frame.type = "MetadataPush" /\ frame.sid # 0
            /\ pc' # pc) =>
           /\ pc' = "select"
           /\ result' = NotReturned
      /\ (DispatchStep /\ frame.type = "MetadataPush" /\ frame.sid = 0) =>
           /\ pc' = "handler" =>
                call' = [ev |-> "OnMetadataPush",
                         handler |-> handlers["OnMetadataPush"],
                         frame |-> frame]
           /\ (sdResult' = Nil /\ handlers["OnMetadataPush"] # NilHandler) =>
                pc' = "handler" ]_vars

\* C7's case: a MetadataPush frame on stream 1 was dispatched while a
\* MetadataPush handler was registered, and the handler was not invoked.
C7_Witness ==
  /\ Dispatched
  /\ frame.type = "MetadataPush"
  /\ frame.sid # 0
  /\ handlers["OnMetadataPush"] # NilHandler
  /\ call = NoCall
  /\ err = Nil

\* C10: handlers are invoked in the order in which their frames were read,
\* each frame at most once: the read indexes of the invocations increase
\* strictly and are indexes of frames read; and a handler runs only for the
\* frame read last, with that frame, so it returns before the next read.
C10_HandlersInReadOrder ==
  /\ \A i \in 1 .. Len(calls) : calls[i] \in 1 .. nread
  /\ \A i \in 1 .. Len(calls), j \in 1 .. Len(calls) :
       i < j => calls[i] < calls[j]
  /\ pc = "handler" =>
       /\ Len(calls) > 0
       /\ calls[Len(calls)] = nread
       /\ call.frame = frame
  /\ pc \in { "reading", "select" } => call = NoCall

\* C10's case: two frames were read and each was handed to a handler, the
\* second one running now.
C10_Witness ==
  /\ pc = "handler"
  /\ calls = << 1, 2 >>

\* C4: in the keepalive scenario (a Keepalive handler is registered,
\* maxLifetime is three intervals, a Keepalive frame is read at least once
\* per interval) the read deadline, once set, lies strictly in the future in
\* every state of the read loop, no Read reports a timeout, and Start never
\* returns because of one.
C4_KeepaliveNeverTimesOut ==
  /\ pc \in LoopPcs =>
       /\ ~DeadlineExceeded(deadline, now)
       /\ deadline # NoDeadline => deadline > now
       /\ handlers["OnKeepalive"] # NilHandler
       /\ maxLifetime = 3 * Interval
  /\ readErr # Timeout
  /\ pc = "returned" => result.kind # Timeout.kind

\* C4's case: keepalives have been read for two intervals and the loop
\* waits for the next frame one interval after the latest one, the deadline
\* two intervals away.
C4_Witness ==
  /\ pc = "reading"
  /\ nread >= 2
  /\ now >= 2 * Interval
  /\ now - keepaliveAt = Interval
  /\ deadline - now = 2 * Interval

\* C5: whenever Start has returned, for whatever reason, the connection's
\* Close has been invoked; and when the last Read failed because the read
\* deadline had passed, Start returned that failure as a non-nil error.
C5_StartReturnClosesConn ==
  pc = "returned" =>
    /\ once
    /\ connCloses >= 1
    /\ readErr = Timeout =>
         /\ result # Nil
         /\ result = Wrap(Timeout, "dispatch incoming frame failed:")

\* C5's case: a deadline was set, the clock passed it with no frame read,
\* the Read timed out and Start returned, closing the connection once.
C5_Witness ==
  /\ pc = "returned"
  /\ readErr = Timeout
  /\ deadline > 0
  /\ now >= deadline
  /\ connCloses = 1

\* What C8 says of one call of Send.
DoneIffSendReturnedNil(r) ==
  /\ r.dones \in { 0, 1 }
  /\ r.dones = 1 <=> r.ret = Nil
  /\ r.ret = Nil <=> (r.conn /\ r.wErr = Nil /\ (r.flush => r.fErr = Nil))
  /\ r.wErr # Nil => r.dones = 0
  /\ r.fErr # Nil => r.dones = 0
  /\ r.ret = errTransportClosed => r.dones = 0
  /\ r.flushes = 1 => (r.flush /\ r.writes = 1 /\ r.wErr = Nil)
  /\ r.flushes \in { 0, 1 }

\* C8: every call of Send invokes the frame's Done hook exactly once if it
\* returns nil and not at all otherwise: not when Write fails, not when
\* Flush fails, not when it returns TransportClosed; Flush is called only
\* when flush is set and Write succeeded; so every successfully sent frame
\* has been released.
C8_DoneIffSendReturnedNil ==
  \A i \in 1 .. Len(sends) : DoneIffSendReturnedNil(sends[i])

\* C8's case: one Send wrote, flushed and released its frame, and another
\* Send's Flush failed and left its frame unreleased.
C8_Witness ==
  \E i, j \in 1 .. Len(sends) :
    /\ sends[i].flush /\ sends[i].ret = Nil /\ sends[i].dones = 1
    /\ sends[j].flushes = 1 /\ sends[j].ret = IoError /\ sends[j].dones = 0

\* C9: every call of Send on a transport that has no connection, or that
\* Close has already closed, returns TransportClosed and performs no Write,
\* no Flush and no Done.
C9_ClosedSendReturnsTransportClosed ==
  \A i \in 1 .. Len(sends) :
    (~sends[i].conn \/ sends[i].closed) =>
      /\ sends[i].ret = errTransportClosed
      /\ sends[i].writes = 0
      /\ sends[i].flushes = 0
      /\ sends[i].dones = 0

\* C11: dispatching a Keepalive frame or a ResumeOK frame leaves lastRcvPos
\* at the position the frame carries, from the moment the handler is invoked
\* and also when SetDeadline fails, no handler is registered or the handler
\* fails; dispatching a frame of any other type, and every other step of the
\* read loop, leaves lastRcvPos unchanged.
C11_LastRcvPosFollowsFrames ==
  [][ /\ (DispatchStep /\ frame.type \in { "Keepalive", "ResumeOK" }) =>
           lastRcvPos' = frame.val
      /\ (DispatchStep /\ frame.type \notin { "Keepalive", "ResumeOK" }) =>
           lastRcvPos' = lastRcvPos
      /\ ~DispatchStep => lastRcvPos' = lastRcvPos
      /\ (pc' = "handler" /\ frame.type \in { "Keepalive", "ResumeOK" }) =>
           lastRcvPos' = frame.val ]_vars

\* C11's case: a Keepalive frame carrying position 1 was dispatched with no
\* handler registered for it, and lastRcvPos is 1.
C11_Witness ==
  /\ Dispatched
  /\ frame.type = "Keepalive"
  /\ frame.val = 1
  /\ IsNoHandlerError(err)
  /\ lastRcvPos = 1

\* This step is a call of SetLifetime that took effect.
SetLifetimeStep ==
  /\ maxLifetime' \in { l \in LifetimeArgs : l >= 1 }
  /\ UNCHANGED << hasConn, lastRcvPos, handlers, connVars, envVars, loopVars,
                  apartVars >>

\* C12: maxLifetime starts at the default keepalive max lifetime;
\* dispatching a Setup frame sets it to the max lifetime the frame carries,
\* dispatching a frame of any other type leaves it unchanged, and nothing
\* but a dispatched Setup frame and a call of SetLifetime changes it, so a
\* transport that reads no Setup frame keeps the value SetLifetime gave it.
C12_MaxLifetimeSetBySetupOnly ==
  /\ maxLifetime = DefaultKeepaliveMaxLifetime
  /\ [][ /\ (DispatchStep /\ frame.type = "Setup") =>
              maxLifetime' = frame.val
         /\ (DispatchStep /\ frame.type # "Setup") =>
              maxLifetime' = maxLifetime
         /\ maxLifetime' # maxLifetime =>
              \/ DispatchStep /\ frame.type = "Setup"
              \/ SetLifetimeStep ]_vars

\* C12's case: SetLifetime set the lifetime to 1, and the only frame read
\* since, a Keepalive frame, was dispatched and left it at 1.
C12_Witness ==
  /\ Dispatched
  /\ nread = 1
  /\ frame.type = "Keepalive"
  /\ maxLifetime = 1

\* C18: maxLifetime is at least 1 in every reachable state, whatever
\* SetLifetime calls are made and whatever frames are dispatched, Setup
\* frames with any max lifetime included, so every deadline DispatchFrame
\* sets is strictly later than the time of the read.
C18_MaxLifetimeAtLeastOne ==
  /\ maxLifetime >= 1
  /\ (Dispatched /\ sdResult = Nil) => deadline > now

\* The calls of conn.Read in progress.
ReadsInProgress ==
  (IF pc = "reading" THEN 1 ELSE 0) + (IF first.pc = "reading" THEN 1 ELSE 0)

\* C14: at most one call of the connection's Read is in progress at any
\* time, whatever ReadFirst and Start calls are made and however they
\* interleave.
C14_OneReader == ReadsInProgress <= 1

\* C15: the connection's Close is invoked at most once over all calls of
\* Transport.Close (explicit, deferred by Start, made by a failing
\* ReadFirst); the call that invokes it is the first one, and every later
\* call returns nil.
C15_CloseOnce ==
  /\ [](connCloses <= 1 /\ (connCloses = 1 <=> once))
  /\ [][ /\ connCloses' # connCloses => (~once /\ connCloses' = 1)
         /\ (once /\ closeRet' # closeRet) => closeRet' = Nil
         /\ (~once /\ once') => closeRet' \in CloseErrs ]_vars

\* C15's case: Start has returned and ReadFirst has returned an error, so
\* Close was called twice at least, and the connection was closed once.
C15_Witness ==
  /\ pc = "returned"
  /\ first.pc = "returned"
  /\ first.err # Nil
  /\ connCloses = 1
  /\ closeRet = Nil

\* This step is ReadFirst returning.
ReadFirstReturnStep == first.pc # "returned" /\ first'.pc = "returned"

\* C19: ReadFirst closes the transport exactly when it returns an error:
\* with a cancelled context it returns the context's error without calling
\* Read, and closes; when Read fails it returns the error wrapped, and
\* closes; when Read succeeds it returns the frame, calls no Close, invokes
\* no handler, sets no deadline and leaves maxLifetime and lastRcvPos alone.
C19_ReadFirstClosesIffError ==
  [][ /\ (first.pc # "reading" /\ first' # first /\ ctxDone) =>
           /\ first' = [pc |-> "returned", frame |-> NoFrame, err |-> CtxErr]
           /\ once' /\ connCloses' = 1
      /\ (first.pc = "reading" /\ first' # first) =>
           /\ first'.pc = "returned"
           /\ \/ /\ first'.err = Nil
                 /\ first'.frame \in FirstFrames
              \/ /\ first'.err.kind \in { e.kind : e \in ReadErrs }
                 /\ first'.err.chain = << "read first frame failed" >>
                 /\ first'.frame = NoFrame
      /\ ReadFirstReturnStep =>
           /\ first'.err # Nil => (once' /\ connCloses' = 1)
           /\ first'.err = Nil =>
                UNCHANGED << once, connCloses, closeRet, deadline, sdResult,
                             calls, call, maxLifetime, lastRcvPos, handlers,
                             pc >> ]_vars

\* C19's case: the Read of ReadFirst failed on an open transport, ReadFirst
\* returned the wrapped error and the connection is closed.
C19_Witness ==
  /\ first = [pc |-> "returned", frame |-> NoFrame,
              err |-> Wrap(IoError, "read first frame failed")]
  /\ pc = "idle"
  /\ connCloses = 1
  /\ closeRet = Nil

\* C16: once conn.Read or DispatchFrame has returned an error, Start reads
\* no further frame and invokes no further handler: a failed Read goes
\* straight to the test of err, a non-nil err makes Start return, and a
\* returned Start does nothing more; and an iteration that begins with the
\* context cancelled makes Start return the context's error without a Read.
C16_ErrorEndsLoop ==
  [][ /\ (pc = "reading" /\ readErr' # Nil) =>
           (pc' = "check" /\ err' = readErr' /\ nread' = nread
              /\ calls' = calls)
      /\ (pc = "check" /\ err # Nil /\ pc' # pc) =>
           (pc' = "returned" /\ result' = StartResult(err)
              /\ nread' = nread /\ calls' = calls)
      /\ pc = "returned" =>
           (pc' = "returned" /\ result' = result /\ nread' = nread
              /\ calls' = calls)
      /\ (pc = "select" /\ ctxDone /\ pc' # pc) =>
           (pc' = "returned" /\ result' = CtxErr /\ nread' = nread
              /\ calls' = calls) ]_vars

\* C16's case: the first frame read found no handler and Start returned
\* the error, although the peer had more frames to send.
C16_Witness ==
  /\ pc = "returned"
  /\ result = Wrap(errNoHandler, "dispatch incoming frame failed:")
  /\ nread = 1
  /\ nread < MaxFrames
  /\ calls = << >>

\* The read loop's handler is running, inside a Handle call or not.
HandlerRuns == gor["loop"].pc \in { "running", "lock", "locked" }

\* C17: Handle and getHandler exclude each other and the lock is not held
\* while a handler runs: a writer and a reader never hold the lock
\* together; Handle changes the entry of its event only, holding the write
\* lock; getHandler returns the entry its event has at the lookup, with no
\* writer inside, and that handler is the one invoked; and a goroutine
\* waiting for the lock gets it, the running handler that calls Handle
\* included, so the read loop does not deadlock.
C17_HandlerTableLocked ==
  /\ []( /\ HandlerRuns => mu.readers = 0
         /\ ~(mu.writer # "none" /\ mu.readers > 0)
         /\ mu.readers \in { 0, 1 } )
  /\ [][ /\ handlers' # handlers =>
              \E g \in Goroutines :
                /\ gor[g].pc = "locked"
                /\ mu.writer = g
                /\ handlers'[gor[g].nev] = gor[g].nh
                /\ \A e \in EventTypes \ { gor[g].nev } :
                     handlers'[e] = handlers[e]
         /\ (gor["loop"].pc = "rlocked" /\ gor'["loop"].pc = "looked") =>
              /\ gor'["loop"].h = handlers[gor["loop"].ev]
              /\ handlers' = handlers
              /\ mu.writer = "none"
         /\ (gor["loop"].pc = "looked" /\ gor'["loop"].pc = "running") =>
              /\ gor'["loop"].h = gor["loop"].h
              /\ gor'["loop"].h # NilHandler ]_vars
  /\ \A g \in Goroutines : (gor[g].pc = "lock") ~> (gor[g].pc = "locked")
  /\ (gor["loop"].pc = "rlock") ~> (gor["loop"].pc \in { "idle", "running" })
  /\ (gor["loop"].pc = "locked") ~> (gor["loop"].pc = "running")

\* C17's case: the running handler has called Handle and holds the write
\* lock, while the owner waits for the lock in a Handle call of its own.
C17_Witness ==
  /\ gor["loop"].pc = "locked"
  /\ mu.writer = "loop"
  /\ gor["loop"].h # NilHandler
  /\ gor["owner"].pc = "lock"

\* C20: a frame built by NewWriteablePayloadFrame(id, data, metadata,
\* flag) has type Payload and stream id id, carries every flag the caller
\* passed, and carries the Metadata flag whenever metadata is not empty;
\* Metadata() and MetadataUTF8() report ok exactly when the header carries
\* the Metadata flag and then return the given metadata, and report not ok
\* with an empty result when metadata is empty and the caller passed no
\* Metadata flag; Data() returns the given data.
C20_PayloadFrameKeepsArguments ==
  payload.built =>
    /\ payload.frame.header.type = "Payload"
    /\ payload.frame.header.sid = payload.id
    /\ Len(payload.metadata) > 0 =>
         Check(payload.frame.header.flag, FlagMetadata)
    /\ \A bit \in FlagBits :
         Check(payload.flag, bit) => Check(payload.frame.header.flag, bit)
    /\ \A bit \in FlagBits \ { FlagMetadata } :
         Check(payload.frame.header.flag, bit) => Check(payload.flag, bit)
    /\ payload.md.called =>
         /\ payload.md.ok <=> Check(payload.frame.header.flag, FlagMetadata)
         /\ payload.md.ok => payload.md.value = payload.metadata
         /\ (Len(payload.metadata) = 0
               /\ ~Check(payload.flag, FlagMetadata)) =>
              (~payload.md.ok /\ payload.md.value = << >>)
    /\ payload.mdUTF8.called =>
         /\ payload.mdUTF8.ok <=>
              Check(payload.frame.header.flag, FlagMetadata)
         /\ payload.mdUTF8.ok =>
              payload.mdUTF8.value = [utf8 |-> payload.metadata]
         /\ (Len(payload.metadata) = 0
               /\ ~Check(payload.flag, FlagMetadata)) =>
              (~payload.mdUTF8.ok /\ payload.mdUTF8.value = [utf8 |-> << >>])
    /\ payload.dataOut.called => payload.dataOut.value = payload.data

\* C20's case: a frame was built with two bytes of metadata and the flags
\* Next and Complete, and all three accessors were called; and the header
\* carries the Metadata flag the caller did not pass.
C20_Witness ==
  /\ payload.built
  /\ Len(payload.metadata) = 2
  /\ payload.flag = FlagNext + FlagComplete
  /\ payload.frame.header.flag = FlagNext + FlagComplete + FlagMetadata
  /\ payload.md.ok
  /\ payload.mdUTF8.ok
  /\ payload.dataOut.called
  /\ payload.data # << >>

\* The frames on the wire, in either direction, for a stream.
InFlight(sid) ==
  { i \in 1 .. Len(echo.toServer) : echo.toServer[i].sid = sid }
    \cup { Len(echo.toServer) + i : i \in { j \in 1 .. Len(echo.toClient) :
                                              echo.toClient[j].sid = sid } }

\* The requester of a stream has observed its one value and is closed.
Answered(sid) ==
  /\ echo.streams[sid].state = "closed"
  /\ echo.streams[sid].seen = << echo.streams[sid].req >>

====
